---- MODULE Spec2Model ----
(***************************************************************************)
(* Model of src/labelpart.py: the part-label generator.  A table (a pandas *)
(* DataFrame) is read once, then labels are generated from it in the       *)
(* "multiple parts" format (generate_labels_from_excel_v1), the "single    *)
(* part" format (generate_labels_from_excel_v2) or automatically           *)
(* (generate_labels_automatically).  Strings are TLA+ strings, handled     *)
(* character by character with Len, SubSeq and \o.                         *)
(***************************************************************************)
EXTENDS Integers, Sequences, FiniteSets, TLC

VARIABLES
    df,           \* the caller's table: [columns, index, rows]
    df0,          \* history: the table as the caller read it
    mode,         \* the caller's configuration: which function it calls
    pc,           \* "idle" (no call in progress) or "loop" (inside the for loop)
    entry,        \* the function the caller invoked: "v1", "v2", "auto" or "none"
    fmt,          \* the generator running now: "v1", "v2" or "none"
    aliased,      \* TRUE when the generator works on the caller's own table object
    work,         \* the table object the running generator works on
    res,          \* the columns the running generator resolved
    keys,         \* df_grouped: the location keys, in iteration order
    i,            \* the loop index (1-based position in keys)
    elements,     \* the running generator's list of flowables
    label_count,  \* the running generator's label counter
    status_text,  \* the caller's status widget: the last text written to it
    shown,        \* history: every error text written to status_text in this call
    auto,         \* generate_labels_automatically's locals
    results       \* history: what each completed call returned to the caller

vars == <<df, df0, mode, pc, entry, fmt, aliased, work, res, keys, i, elements,
          label_count, status_text, shown, auto, results>>

-----------------------------------------------------------------------------
(* Python values *)

\* Python's None; no header equals it, since headers are upper-cased before use.
None == "<None>"

\* Python truthiness of a resolved column name.
Truthy(c) == c # None /\ c # ""

LowerAlpha == "abcdefghijklmnopqrstuvwxyz"
UpperAlpha == "ABCDEFGHIJKLMNOPQRSTUVWXYZ"

\* The characters the model's strings are made of, in code-point order.
Ascii == "\n #./0123456789:<>ABCDEFGHIJKLMNOPQRSTUVWXYZ_abcdefghijklmnopqrstuvwxyz"

Char(s, k) == SubSeq(s, k, k)

\* `p in s` for strings.
Contains(s, p) ==
    \E k \in 1..(Len(s) - Len(p) + 1) : SubSeq(s, k, k + Len(p) - 1) = p

\* The upper-case form of each lower-case letter.
UpperOf ==
    [c \in {Char(LowerAlpha, k) : k \in 1..Len(LowerAlpha)} |->
        Char(UpperAlpha, CHOOSE k \in 1..Len(LowerAlpha) : Char(LowerAlpha, k) = c)]

UpperChar(c) == IF c \in DOMAIN UpperOf THEN UpperOf[c] ELSE c

\* str.upper()
RECURSIVE Upper(_)
Upper(s) == IF s = "" THEN "" ELSE UpperChar(Char(s, 1)) \o Upper(SubSeq(s, 2, Len(s)))

\* [col.upper() for col in columns]
UpperAll(columns) == [k \in 1..Len(columns) |-> Upper(columns[k])]

\* The rank of each character in code-point order.
OrdOf ==
    [c \in {Char(Ascii, k) : k \in 1..Len(Ascii)} |->
        CHOOSE k \in 1..Len(Ascii) : Char(Ascii, k) = c]

Ord(c) == OrdOf[c]

\* a < b for Python strings (code-point lexicographic order)
RECURSIVE StrLess(_, _)
StrLess(a, b) ==
    IF b = "" THEN FALSE
    ELSE IF a = "" THEN TRUE
    ELSE IF Char(a, 1) = Char(b, 1)
         THEN StrLess(SubSeq(a, 2, Len(a)), SubSeq(b, 2, Len(b)))
         ELSE Ord(Char(a, 1)) < Ord(Char(b, 1))

\* sep.join(values)
RECURSIVE Join(_, _)
Join(values, sep) ==
    IF Len(values) = 0 THEN ""
    ELSE IF Len(values) = 1 THEN values[1]
    ELSE values[1] \o sep \o Join(Tail(values), sep)

\* The positions k at which flags[k] holds, in order.
RECURSIVE Positions(_, _)
Positions(flags, k) ==
    IF k > Len(flags) THEN <<>>
    ELSE (IF flags[k] THEN <<k>> ELSE <<>>) \o Positions(flags, k + 1)

\* next((col for col in cols if <flag of col>), default)
NextCol(cols, flags, default) ==
    LET hits == Positions(flags, 1)
    IN  IF Len(hits) = 0 THEN default ELSE cols[hits[1]]

-----------------------------------------------------------------------------
(* Rows of a table *)

\* A row of `t` as pandas hands it over: the column labels with the row's values.
RowOf(t, r) == [columns |-> t.columns, values |-> t.rows[r], name |-> t.index[r]]

\* The positions of the label `col` among the row's labels.
ColPositions(row, col) == {k \in 1..Len(row.columns) : row.columns[k] = col}

\* `col in row`
InRow(row, col) == ColPositions(row, col) # {}

\* str() of a pandas Series holding `vals` under the label `col`: what a lookup
\* by a duplicated label yields.
SeriesStr(col, vals) ==
    Join([k \in 1..Len(vals) |-> col \o " " \o vals[k]], "\n") \o "\ndtype: object"

\* str(row[col]) and str(row.get(col, '')) for a label the row may hold once,
\* several times or not at all.
StrGet(row, col) ==
    LET at == ColPositions(row, col)
    IN  IF at = {} THEN ""
        ELSE IF Cardinality(at) = 1 THEN row.values[CHOOSE k \in at : TRUE]
        ELSE LET seq == Positions([k \in 1..Len(row.columns) |-> k \in at], 1)
             IN  SeriesStr(col, [k \in 1..Len(seq) |-> row.values[seq[k]]])

-----------------------------------------------------------------------------
(* Column resolution *)

\* A resolution that takes the leftmost header matching the general pattern,
\* whether or not another header matches the specific one.
find_location_columns_leftmost(columns) ==
    LET cols == UpperAll(columns)
        In(p, c) == Contains(c, p)
        Flags(P(_)) == [k \in 1..Len(cols) |-> P(cols[k])]
        Bus(c) == In("BUS", c)
        Station(c) == In("STATION", c)
        Rack(c) == In("RACK", c) /\ ~In("NO", c)
        RackNo(c) == In("RACK", c) /\ (In("NO", c) \/ In("NUM", c))
        Level(c) == In("LEVEL", c)
        Cell(c) == In("CELL", c)
    IN  [bus_model_col   |-> NextCol(cols, Flags(Bus), None),
         station_no_col  |-> NextCol(cols, Flags(Station), None),
         rack_col        |-> NextCol(cols, Flags(Rack), None),
         rack_no_col     |-> NextCol(cols, Flags(RackNo), None),
         rack_no_1st_col |-> None,
         rack_no_2nd_col |-> None,
         level_col       |-> NextCol(cols, Flags(Level), None),
         cell_col        |-> NextCol(cols, Flags(Cell), None)]

find_location_columns(columns) ==
    LET cols == UpperAll(columns)
        In(p, c) == Contains(c, p)
        Flags(P(_)) == [k \in 1..Len(cols) |-> P(cols[k])]
        BusModel(c) == In("BUS", c) /\ In("MODEL", c)
        Bus(c) == In("BUS", c)
        StationNo(c) == In("STATION", c) /\ (In("NO", c) \/ In("NUM", c))
        Station(c) == In("STATION", c)
        Rack(c) == In("RACK", c) /\ ~In("NO", c)
        RackNo1st(c) == In("RACK", c) /\ In("NO", c)
                        /\ (In("1ST", c) \/ (In("1", c) /\ In("DIGIT", c)))
        RackNo2nd(c) == In("RACK", c) /\ In("NO", c)
                        /\ (In("2ND", c) \/ (In("2", c) /\ In("DIGIT", c)))
        RackNo(c) == In("RACK", c) /\ (In("NO", c) \/ In("NUM", c))
                     /\ ~In("1ST", c) /\ ~In("2ND", c) /\ ~In("1", c) /\ ~In("2", c)
        Level(c) == In("LEVEL", c)
        Cell(c) == In("CELL", c)
    IN  [bus_model_col   |-> NextCol(cols, Flags(BusModel), NextCol(cols, Flags(Bus), None)),
         station_no_col  |-> NextCol(cols, Flags(StationNo), NextCol(cols, Flags(Station), None)),
         rack_col        |-> NextCol(cols, Flags(Rack), None),
         rack_no_col     |-> NextCol(cols, Flags(RackNo), None),
         rack_no_1st_col |-> NextCol(cols, Flags(RackNo1st), None),
         rack_no_2nd_col |-> NextCol(cols, Flags(RackNo2nd), None),
         level_col       |-> NextCol(cols, Flags(Level), None),
         cell_col        |-> NextCol(cols, Flags(Cell), None)]

find_packaging_factor_column(columns) ==
    LET cols == UpperAll(columns)
    IN  NextCol(cols,
                [k \in 1..Len(cols) |-> Contains(cols[k], "PACKAGING") /\ Contains(cols[k], "FACTOR")],
                None)

\* The part-number column as the header patterns resolve it (None when no header
\* matches): lines 254-255 of v1, 446-447 of v2.
find_part_no_col(cols) ==
    NextCol(cols,
            [k \in 1..Len(cols) |->
                Contains(cols[k], "PART")
                /\ (Contains(cols[k], "NO") \/ Contains(cols[k], "NUM") \/ Contains(cols[k], "#"))],
            NextCol(cols, [k \in 1..Len(cols) |-> cols[k] \in {"PARTNO", "PART"}], None))

find_desc_col(cols) ==
    NextCol(cols, [k \in 1..Len(cols) |-> Contains(cols[k], "DESC")], None)

\* A fallback that takes the last column instead of the first.
part_no_fallback_last(cols, part_no_col) ==
    IF Truthy(part_no_col) THEN part_no_col ELSE cols[Len(cols)]

\* The fallbacks of lines 261-264 (453-456); cols is not empty here.
part_no_fallback(cols, part_no_col) ==
    IF Truthy(part_no_col) THEN part_no_col ELSE cols[1]

desc_fallback(cols, part_no_col, desc_col) ==
    IF Truthy(desc_col) THEN desc_col
    ELSE IF Len(cols) > 1 THEN cols[2] ELSE part_no_col

-----------------------------------------------------------------------------
(* Location key and location values *)

\* A key built without the bus model.
location_key_values_no_bus(row, c) ==
    LET rack_no_value == StrGet(row, c.rack_no_col)
    IN  << IF Truthy(c.station_no_col) THEN StrGet(row, c.station_no_col) ELSE "",
           IF Truthy(c.rack_col) THEN StrGet(row, c.rack_col) ELSE "",
           IF Truthy(c.rack_no_1st_col) THEN StrGet(row, c.rack_no_1st_col)
           ELSE IF Truthy(c.rack_no_col)
                THEN (IF rack_no_value # "" THEN Char(rack_no_value, 1) ELSE "")
                ELSE "",
           IF Truthy(c.rack_no_2nd_col) THEN StrGet(row, c.rack_no_2nd_col)
           ELSE IF Truthy(c.rack_no_col)
                THEN (IF Len(rack_no_value) > 1 THEN Char(rack_no_value, 2) ELSE "")
                ELSE "",
           IF Truthy(c.level_col) THEN StrGet(row, c.level_col) ELSE "",
           IF Truthy(c.cell_col) THEN StrGet(row, c.cell_col) ELSE "" >>

\* The seven components create_location_key joins.
location_key_values(row, c) ==
    LET rack_no_value == StrGet(row, c.rack_no_col)
    IN  << IF Truthy(c.bus_model_col) THEN StrGet(row, c.bus_model_col) ELSE "",
           IF Truthy(c.station_no_col) THEN StrGet(row, c.station_no_col) ELSE "",
           IF Truthy(c.rack_col) THEN StrGet(row, c.rack_col) ELSE "",
           IF Truthy(c.rack_no_1st_col) THEN StrGet(row, c.rack_no_1st_col)
           ELSE IF Truthy(c.rack_no_col)
                THEN (IF rack_no_value # "" THEN Char(rack_no_value, 1) ELSE "")
                ELSE "",
           IF Truthy(c.rack_no_2nd_col) THEN StrGet(row, c.rack_no_2nd_col)
           ELSE IF Truthy(c.rack_no_col)
                THEN (IF Len(rack_no_value) > 1 THEN Char(rack_no_value, 2) ELSE "")
                ELSE "",
           IF Truthy(c.level_col) THEN StrGet(row, c.level_col) ELSE "",
           IF Truthy(c.cell_col) THEN StrGet(row, c.cell_col) ELSE "" >>

create_location_key(row, c) == Join(location_key_values(row, c), "_")

extract_location_values(row, c) ==
    LET Has(col) == Truthy(col) /\ InRow(row, col)
        rack_no_value == StrGet(row, c.rack_no_col)
    IN  << IF Has(c.bus_model_col) THEN StrGet(row, c.bus_model_col) ELSE "",
           IF Has(c.station_no_col) THEN StrGet(row, c.station_no_col) ELSE "",
           IF Has(c.rack_col) THEN StrGet(row, c.rack_col) ELSE "",
           IF Has(c.rack_no_1st_col) THEN StrGet(row, c.rack_no_1st_col)
           ELSE IF Has(c.rack_no_col)
                THEN (IF rack_no_value # "" /\ Len(rack_no_value) >= 1
                      THEN Char(rack_no_value, 1) ELSE "")
                ELSE "",
           IF Has(c.rack_no_2nd_col) THEN StrGet(row, c.rack_no_2nd_col)
           ELSE IF Has(c.rack_no_col)
                THEN (IF rack_no_value # "" /\ Len(rack_no_value) >= 2
                      THEN Char(rack_no_value, 2) ELSE "")
                ELSE "",
           IF Has(c.level_col) THEN StrGet(row, c.level_col) ELSE "",
           IF Has(c.cell_col) THEN StrGet(row, c.cell_col) ELSE "" >>

-----------------------------------------------------------------------------
(* Grouping *)

\* The value of the row's 'location_key' column (the label is lower-case, every
\* other label has been upper-cased, so it is never duplicated).
KeyOf(t, r) == StrGet(RowOf(t, r), "location_key")

\* The strings of S in ascending order: the order groupby iterates its groups in.
RECURSIVE SortedKeys(_)
SortedKeys(S) ==
    IF S = {} THEN <<>>
    ELSE LET m == CHOOSE x \in S : \A y \in S \ {x} : StrLess(x, y)
         IN  <<m>> \o SortedKeys(S \ {m})

\* df.groupby('location_key'): the group keys
GroupKeys(t) == SortedKeys({KeyOf(t, r) : r \in 1..Len(t.rows)})

\* A grouping that keeps one record per key.
Group_first_only(t, key) ==
    SubSeq(Positions([r \in 1..Len(t.rows) |-> KeyOf(t, r) = key], 1), 1, 1)

\* The rows (positions in t) of the group `key`, in table order.
Group(t, key) == Positions([r \in 1..Len(t.rows) |-> KeyOf(t, r) = key], 1)

\* group.tail(2) in place of group.head(2)
Head2_tail(group) == SubSeq(group, IF Len(group) < 2 THEN 1 ELSE Len(group) - 1, Len(group))

\* group.head(2)
Head2(group) == SubSeq(group, 1, IF Len(group) < 2 THEN Len(group) ELSE 2)

-----------------------------------------------------------------------------
(* Flowables and messages *)

MAX_LABELS_PER_PAGE == 4

PageBreak == [type |-> "PageBreak", part_no |-> "", desc |-> "", values |-> <<>>, row |-> 0]
Spacer == [type |-> "Spacer", part_no |-> "", desc |-> "", values |-> <<>>, row |-> 0]

\* A part table: the part number and description it prints; `row` records the
\* index label of the table row the texts were taken from.
PartTable(type, part_no, desc, row) ==
    [type |-> type, part_no |-> part_no, desc |-> desc, values |-> <<>>, row |-> row]

LocationTable(values) ==
    [type |-> "location_table", part_no |-> "", desc |-> "", values |-> values, row |-> 0]

\* Whether Paragraph(text) raises: reportlab rejects markup with an unbalanced
\* closing tag, and the cell text is pasted into the markup unescaped.
ParagraphRaises(text) == Contains(text, "</")

Msg(kind, key) == [kind |-> kind, key |-> key]
NoMsg == Msg("none", "")

\* What a generator returns: None, or the buffer of the document built from doc
NoneRet == [ok |-> FALSE, doc |-> <<>>]
Buffer(doc) == [ok |-> TRUE, doc |-> doc]

NoRes == [part_no_col |-> None, desc_col |-> None,
          bus_model_col |-> None, station_no_col |-> None, rack_col |-> None,
          rack_no_col |-> None, rack_no_1st_col |-> None, rack_no_2nd_col |-> None,
          level_col |-> None, cell_col |-> None]

NoTable == [columns |-> <<>>, index |-> <<>>, rows |-> <<>>]
NoAuto == [type |-> "none", stage |-> 0, pending |-> NoTable, single_pdf |-> NoneRet]

-----------------------------------------------------------------------------
(* The generators' prologue: lines 248-281 of v1, 440-473 of v2 *)

\* df.columns = [col.upper() for col in df.columns]
UpperColumns(t) == [t EXCEPT !.columns = UpperAll(t.columns)]

\* The columns a generator resolves from a table whose columns are upper-cased.
Resolve(t) ==
    LET cols == t.columns
        part_no_col == part_no_fallback(cols, find_part_no_col(cols))
        desc_col == desc_fallback(cols, part_no_col, find_desc_col(cols))
        loc == find_location_columns(cols)
    IN  [part_no_col |-> part_no_col, desc_col |-> desc_col,
         bus_model_col |-> loc.bus_model_col, station_no_col |-> loc.station_no_col,
         rack_col |-> loc.rack_col, rack_no_col |-> loc.rack_no_col,
         rack_no_1st_col |-> loc.rack_no_1st_col, rack_no_2nd_col |-> loc.rack_no_2nd_col,
         level_col |-> loc.level_col, cell_col |-> loc.cell_col]

\* df['location_key'] = df.apply(create_location_key ...): a new last column
AddLocationKey(t, c) ==
    [t EXCEPT !.columns = Append(t.columns, "location_key"),
              !.rows = [r \in 1..Len(t.rows) |->
                            Append(t.rows[r], create_location_key(RowOf(t, r), c))]]

-----------------------------------------------------------------------------
(* Packaging factors: lines 604-626 of generate_labels_automatically *)

Digits == "0123456789"
IsDigit(c) == \E k \in 1..Len(Digits) : Char(Digits, k) = c

\* s.replace('.', '')
RECURSIVE RemoveDots(_)
RemoveDots(s) ==
    IF s = "" THEN ""
    ELSE (IF Char(s, 1) = "." THEN "" ELSE Char(s, 1)) \o RemoveDots(SubSeq(s, 2, Len(s)))

\* s.isdigit()
AllDigits(s) == s # "" /\ \A k \in 1..Len(s) : IsDigit(Char(s, k))

\* str(val).replace('.', '').isdigit()
DigitForm(v) == AllDigits(RemoveDots(v))

DotCount(v) == Cardinality({k \in 1..Len(v) : Char(v, k) = "."})

\* Whether float(v) succeeds, for the texts of the model: digits with at most
\* one point, or "nan".
FloatParses(v) == v = "nan" \/ (DigitForm(v) /\ DotCount(v) <= 1)

DotAt(v) == IF DotCount(v) = 0 THEN Len(v) + 1 ELSE CHOOSE k \in 1..Len(v) : Char(v, k) = "."
IntPart(v) == SubSeq(v, 1, DotAt(v) - 1)
FracPart(v) == SubSeq(v, DotAt(v) + 1, Len(v))
AllZero(s) == \A k \in 1..Len(s) : Char(s, k) = "0"

\* float(v) == 1.0 and float(v) == 0.5, for v that parses
IsOne(v) ==
    /\ v # "nan"
    /\ IntPart(v) # "" /\ Char(IntPart(v), Len(IntPart(v))) = "1"
    /\ AllZero(SubSeq(IntPart(v), 1, Len(IntPart(v)) - 1))
    /\ AllZero(FracPart(v))
IsHalf(v) ==
    /\ v # "nan"
    /\ AllZero(IntPart(v))
    /\ FracPart(v) # "" /\ Char(FracPart(v), 1) = "5"
    /\ AllZero(SubSeq(FracPart(v), 2, Len(FracPart(v))))

\* df_upper[packaging_factor_col], as texts
FactorColumn(t, col) == [r \in 1..Len(t.rows) |-> StrGet(RowOf(t, r), col)]

\* any(float(val) == x for val in unique_factors if <digit form>), scanning
\* from position k: "true", "false", or "raise" when float() raises ValueError
\* before a value equal to x is met.  x is "1.0" or "0.5".
RECURSIVE AnyFloatEq(_, _, _)
AnyFloatEq(factors, x, k) ==
    IF k > Len(factors) THEN "false"
    ELSE IF ~DigitForm(factors[k]) THEN AnyFloatEq(factors, x, k + 1)
    ELSE IF ~FloatParses(factors[k]) THEN "raise"
    ELSE IF (x = "1.0" /\ IsOne(factors[k])) \/ (x = "0.5" /\ IsHalf(factors[k])) THEN "true"
    ELSE AnyFloatEq(factors, x, k + 1)

has_single(factors) == AnyFloatEq(factors, "1.0", 1)
has_multiple(factors) == AnyFloatEq(factors, "0.5", 1)

\* column.astype(float): raises ValueError when a value does not parse
AstypeRaises(factors) == \E r \in 1..Len(factors) : ~FloatParses(factors[r])

\* t[mask]: the rows whose mask holds, with their index labels
Filter(t, mask) ==
    LET keep == Positions(mask, 1)
    IN  [columns |-> t.columns,
         index |-> [k \in 1..Len(keep) |-> t.index[keep[k]]],
         rows |-> [k \in 1..Len(keep) |-> t.rows[keep[k]]]]

df_single(t, col) ==
    LET f == FactorColumn(t, col)
    IN  Filter(t, [r \in 1..Len(f) |-> DigitForm(f[r]) /\ IsOne(f[r])])

df_multiple(t, col) ==
    LET f == FactorColumn(t, col)
    IN  Filter(t, [r \in 1..Len(f) |-> DigitForm(f[r]) /\ IsHalf(f[r])])

\* determine_label_type(row, packaging_factor_col), the factor being a text
determine_label_type(row, packaging_factor_col) ==
    IF Truthy(packaging_factor_col) /\ InRow(row, packaging_factor_col)
    THEN LET packaging_factor == StrGet(row, packaging_factor_col)
         IN  IF ~FloatParses(packaging_factor) THEN "single"
             ELSE IF IsOne(packaging_factor) THEN "single"
             ELSE IF IsHalf(packaging_factor) THEN "multiple"
             ELSE "single"
    ELSE "single"

-----------------------------------------------------------------------------
(* The loop body: lines 283-414 of v1, 475-577 of v2 *)

\* A page break one label late.
NeedsPageBreak_late(count) == count > 0 /\ count % (MAX_LABELS_PER_PAGE + 1) = 0

\* label_count > 0 and label_count % MAX_LABELS_PER_PAGE == 0
NeedsPageBreak(count) == count > 0 /\ count % MAX_LABELS_PER_PAGE = 0

\* The rows a label is made from: part1 and, in v1, part2.
LabelRows(f, parts) ==
    IF f = "v1"
    THEN (IF Len(parts) < 2 THEN <<parts[1], parts[1]>> ELSE <<parts[1], parts[2]>>)
    ELSE <<parts[1]>>

\* The flowables one label appends (lines 405-409, 569-572).
LabelFlowables(f, t, c, rows) ==
    LET Part(type, r) == PartTable(type, StrGet(RowOf(t, r), c.part_no_col),
                                   StrGet(RowOf(t, r), c.desc_col), t.index[r])
        location_table == LocationTable(extract_location_values(RowOf(t, rows[1]), c))
    IN  IF f = "v1"
        THEN <<Part("part_table", rows[1]), Spacer, Part("part_table2", rows[2]),
               location_table, Spacer>>
        ELSE <<Part("part_table", rows[1]), Spacer, location_table, Spacer>>

\* Whether building the label's tables raises inside the try block.
LabelRaises(t, c, rows) ==
    \E k \in 1..Len(rows) :
        \/ ParagraphRaises(StrGet(RowOf(t, rows[k]), c.part_no_col))
        \/ ParagraphRaises(StrGet(RowOf(t, rows[k]), c.desc_col))

-----------------------------------------------------------------------------
(* Bounds and input tables *)

MaxRows == 3
MaxCalls == 2
PageRows == 9

\* A table as pd.read_excel returns it: the headers, a 0-based RangeIndex, the rows.
Table(columns, rows) ==
    [columns |-> columns, index |-> [r \in 1..Len(rows) |-> r - 1], rows |-> rows]

\* The sequences over S with 1..n elements.
SeqsUpTo(S, n) == UNION {[1..m -> S] : m \in 1..n}

FullColumns == <<"Part No", "Description", "Bus Model", "Station No", "Rack",
                 "Rack No 1st", "Rack No 2nd", "Level", "Cell">>
FullRows == { <<"P1", "D1", "B1", "S1", "R", "0", "1", "A", "1">>,
              <<"P2", "D2", "B2", "S1", "R", "0", "1", "A", "1">>,
              <<"P3", "D</b>", "B1", "S1", "R", "0", "2", "A", "1">> }

SplitColumns == <<"Part No", "Desc", "Rack No", "Level">>
SplitRows == { <<"P1", "D1", "12", "A">>, <<"P2", "D2", "123", "A">>,
               <<"P3", "D3", "7", "A">> }

PlainColumns == <<"Code", "Name", "Cell">>
PlainRows == { <<"X1", "N1", "1">>, <<"X2", "N2", "1">>,
               <<"X3", "N3", "2">>, <<"</b>", "N4", "2">> }

OneColumns == <<"Part No">>
OneRows == { <<"P1">>, <<"P2">>, <<"</b>">> }

FactorColumns == <<"Part No", "Desc", "Cell", "Packaging Factor">>
FactorRows == { <<"P1", "D1", "1", "1.0">>, <<"P2", "D2", "1", "0.5">>,
                <<"P3", "D3", "2", "0.5">>, <<"P4", "D4", "2", "2">>,
                <<"P5", "D5", "1", "x">> }

\* Location values that hold the separator of the key.
SeparatorColumns == <<"Part No", "Level", "Cell">>
SeparatorRows == { <<"P1", "A_", "B">>, <<"P2", "A", "_B">>, <<"P3", "A", "B">> }

\* A sheet with no header and no row.
EmptyTable == Table(<<>>, <<>>)

TablesOf(columns, palette) == {Table(columns, rows) : rows \in SeqsUpTo(palette, MaxRows)}

Tables ==
    TablesOf(FullColumns, FullRows) \cup TablesOf(SplitColumns, SplitRows)
    \cup TablesOf(PlainColumns, PlainRows) \cup TablesOf(OneColumns, OneRows)
    \cup TablesOf(FactorColumns, FactorRows)
    \cup TablesOf(SeparatorColumns, SeparatorRows) \cup {EmptyTable}

\* The decimal text of a natural number.
RECURSIVE IntStr(_)
IntStr(n) == IF n < 10 THEN Char(Digits, n + 1) ELSE IntStr(n \div 10) \o Char(Digits, (n % 10) + 1)

\* Tables of PageRows rows, each in a cell of its own, each part number either
\* well formed or not.
PageColumns == <<"Part No", "Cell">>
PageTables ==
    {Table(PageColumns, [r \in 1..PageRows |-> <<pn[r], IntStr(r)>>]) :
        pn \in [1..PageRows -> {"P", "</b>"}]}

\* Header lists in every order: 1..MaxHeaders distinct headers, and one row
\* whose cell under each header tells the header apart.
MaxHeaders == 3
HeaderPalette ==
    { <<"Bus", "b">>, <<"Bus Model", "m">>, <<"Model of Bus", "o">>,
      <<"Station", "s">>, <<"Station No", "n">>,
      <<"Rack No", "12">>, <<"Rack No 1st", "7">>, <<"Rack No 2nd", "8">> }
HeaderLists ==
    {hs \in SeqsUpTo(HeaderPalette, MaxHeaders) :
        \A j, k \in 1..Len(hs) : j # k => hs[j] # hs[k]}
HeaderTables ==
    {Table([k \in 1..Len(hs) |-> hs[k][1]], <<[k \in 1..Len(hs) |-> hs[k][2]]>>) :
        hs \in HeaderLists}

-----------------------------------------------------------------------------
(* State machine *)

InitWith(T) ==
    /\ df \in T
    /\ df0 = df
    /\ mode \in {"v1", "v2", "auto"}
    /\ pc = "idle"
    /\ entry = "none"
    /\ fmt = "none"
    /\ aliased = FALSE
    /\ work = NoTable
    /\ res = NoRes
    /\ keys = <<>>
    /\ i = 0
    /\ elements = <<>>
    /\ label_count = 0
    /\ status_text = NoMsg
    /\ shown = <<>>
    /\ auto = NoAuto
    /\ results = <<>>

Init == InitWith(Tables)
InitPages == InitWith(PageTables)
InitHeaders == InitWith(HeaderTables)

\* How many calls a behaviour explores: repeated calls on the small tables only.
CallLimit == IF Len(df0.rows) > MaxRows THEN 1 ELSE MaxCalls

Result(e, type, pdfs, raised) == [entry |-> e, type |-> type, pdfs |-> pdfs, raised |-> raised]

\* The locals of a finished call are gone.
ClearLocals ==
    /\ pc' = "idle"
    /\ entry' = "none"
    /\ fmt' = "none"
    /\ aliased' = FALSE
    /\ work' = NoTable
    /\ res' = NoRes
    /\ keys' = <<>>
    /\ i' = 0
    /\ elements' = <<>>
    /\ label_count' = 0
    /\ auto' = NoAuto

\* Entering generate_labels_from_excel_v1 / _v2 (f) on table t, which is the
\* caller's own object when al holds: lines 248-281 (440-473).  With no column
\* at all, cols[0] raises IndexError, which nothing catches.
Enter(e, f, t, al, a) ==
    LET upper == UpperColumns(t)
    IN  IF Len(upper.columns) = 0
        THEN /\ results' = Append(results, Result(e, a.type, <<>>, "IndexError"))
             /\ df' = IF al THEN upper ELSE df
             /\ status_text' = status_text
             /\ ClearLocals
        ELSE LET c == Resolve(upper)
                 keyed == AddLocationKey(upper, c)
             IN  /\ pc' = "loop"
                 /\ entry' = e
                 /\ fmt' = f
                 /\ aliased' = al
                 /\ work' = keyed
                 /\ df' = IF al THEN keyed ELSE df
                 /\ res' = c
                 /\ keys' = GroupKeys(keyed)
                 /\ i' = 1
                 /\ elements' = <<>>
                 /\ label_count' = 0
                 /\ status_text' = Msg("location_columns", "")
                 /\ auto' = a
                 /\ results' = results

CallV1 ==
    /\ pc = "idle"
    /\ mode = "v1"
    /\ Len(results) < CallLimit
    /\ shown' = <<>>
    /\ Enter("v1", "v1", df, TRUE, NoAuto)
    /\ UNCHANGED <<df0, mode>>

CallV2 ==
    /\ pc = "idle"
    /\ mode = "v2"
    /\ Len(results) < CallLimit
    /\ shown' = <<>>
    /\ Enter("v2", "v2", df, TRUE, NoAuto)
    /\ UNCHANGED <<df0, mode>>

\* generate_labels_automatically up to its first generator call: lines 593-644.
CallAuto ==
    /\ pc = "idle"
    /\ mode = "auto"
    /\ Len(results) < CallLimit
    /\ shown' = <<>>
    /\ UNCHANGED <<df0, mode>>
    /\ LET packaging_factor_col == find_packaging_factor_column(df.columns)
           df_upper == UpperColumns(df)
           factors == FactorColumn(df_upper, packaging_factor_col)
           single == has_single(factors)
           multiple == IF single = "raise" THEN "raise" ELSE has_multiple(factors)
       IN  IF ~Truthy(packaging_factor_col)
           THEN Enter("auto", "v2", df, TRUE, [NoAuto EXCEPT !.type = "single"])
           ELSE IF multiple = "raise"
                   \/ (single = "true" /\ multiple = "true" /\ AstypeRaises(factors))
           THEN /\ results' = Append(results, Result("auto", "none", <<>>, "ValueError"))
                /\ status_text' = Msg(IF multiple = "raise" THEN "found_factors" ELSE "mixed", "")
                /\ df' = df
                /\ ClearLocals
           ELSE IF single = "true" /\ multiple = "true"
           THEN Enter("auto", "v2", df_single(df_upper, packaging_factor_col), FALSE,
                      [type |-> "mixed", stage |-> 1,
                       pending |-> df_multiple(df_upper, packaging_factor_col),
                       single_pdf |-> NoneRet])
           ELSE IF multiple = "true"
           THEN Enter("auto", "v1", df, TRUE, [NoAuto EXCEPT !.type = "multiple"])
           ELSE Enter("auto", "v2", df, TRUE, [NoAuto EXCEPT !.type = "single"])

\* One iteration of the for loop over the groups.
ProcessLocation ==
    /\ pc = "loop"
    /\ i <= Len(keys)
    /\ LET location_key == keys[i]
           parts == Head2(Group(work, location_key))
           rows == LabelRows(fmt, parts)
           broken == IF NeedsPageBreak(label_count) THEN Append(elements, PageBreak) ELSE elements
       IN  /\ label_count' = label_count + 1
           /\ IF LabelRaises(work, res, rows)
              THEN /\ elements' = broken
                   /\ status_text' = Msg("error", location_key)
                   /\ shown' = Append(shown, Msg("error", location_key))
              ELSE /\ elements' = broken \o LabelFlowables(fmt, work, res, rows)
                   /\ status_text' = Msg("processing", location_key)
                   /\ shown' = shown
    /\ i' = i + 1
    /\ UNCHANGED <<df, df0, mode, pc, entry, fmt, aliased, work, res, keys, auto, results>>

\* After the loop: lines 416-428 (579-591), and the caller's next step.
Return ==
    /\ pc = "loop"
    /\ i > Len(keys)
    /\ UNCHANGED <<df0, mode, shown>>
    /\ LET ret == IF elements # <<>> THEN Buffer(elements) ELSE NoneRet
           said == Msg(IF elements # <<>> THEN "building" ELSE "no_labels", "")
       IN  IF auto.type = "mixed" /\ auto.stage = 1
           THEN \* multiple_pdf = generate_labels_from_excel_v1(df_multiple, ...)
                Enter("auto", "v1", auto.pending, FALSE,
                      [auto EXCEPT !.stage = 2, !.single_pdf = ret, !.pending = NoTable])
           ELSE /\ results' = Append(results,
                        Result(entry, auto.type,
                               IF auto.type = "mixed" THEN <<auto.single_pdf, ret>> ELSE <<ret>>,
                               "none"))
                /\ status_text' = said
                /\ df' = df
                /\ ClearLocals

Next == CallV1 \/ CallV2 \/ CallAuto \/ ProcessLocation \/ Return

Spec == Init /\ [][Next]_vars
SpecPages == InitPages /\ [][Next]_vars
SpecHeaders == InitHeaders /\ [][Next]_vars

-----------------------------------------------------------------------------
(* Vocabulary of the properties *)

\* The position in t of the row with index label `label`.
IndexPos(t, label) == CHOOSE r \in 1..Len(t.rows) : t.index[r] = label

MinOf(S) == CHOOSE m \in S : \A x \in S : m <= x

\* The cell of row r under the column `col` ("" when the column is not resolved).
CellOf(t, r, col) ==
    IF ~Truthy(col) THEN ""
    ELSE t.rows[r][CHOOSE k \in 1..Len(t.columns) : t.columns[k] = col]

\* The n-th rack digit of row r: the digit column when there is one, else the
\* n-th character of the rack-number column.
RackDigit(t, r, c, n) ==
    LET own == IF n = 1 THEN c.rack_no_1st_col ELSE c.rack_no_2nd_col
        whole == CellOf(t, r, c.rack_no_col)
    IN  IF Truthy(own) THEN CellOf(t, r, own)
        ELSE IF Len(whole) >= n THEN Char(whole, n) ELSE ""

\* The positions of `elements` holding a flowable of the given type.
Of(type) == {p \in 1..Len(elements) : elements[p].type = type}

\* The rows of the working table that share row r's location key.
SameKey(r) == {q \in 1..Len(work.rows) : KeyOf(work, q) = KeyOf(work, r)}

-----------------------------------------------------------------------------
(* C1 *)

\* C1, as amended: the location key of every record is the "_"-join of exactly
\* seven fields, in this order: bus model, station, rack, first rack digit,
\* second rack digit, level, cell; in both label formats.
C1_KeyIsSevenFields ==
    pc = "loop" =>
        \A r \in 1..Len(work.rows) :
            KeyOf(work, r) =
                CellOf(work, r, res.bus_model_col) \o "_" \o
                CellOf(work, r, res.station_no_col) \o "_" \o
                CellOf(work, r, res.rack_col) \o "_" \o
                RackDigit(work, r, res, 1) \o "_" \o
                RackDigit(work, r, res, 2) \o "_" \o
                CellOf(work, r, res.level_col) \o "_" \o
                CellOf(work, r, res.cell_col)

\* C1 as stated: the key is the join of the six fields station, rack, the two
\* rack digits, level and cell, and nothing else.
C1_KeyIsSixFields ==
    pc = "loop" =>
        \A r \in 1..Len(work.rows) :
            KeyOf(work, r) =
                CellOf(work, r, res.station_no_col) \o "_" \o
                CellOf(work, r, res.rack_col) \o "_" \o
                RackDigit(work, r, res, 1) \o "_" \o
                RackDigit(work, r, res, 2) \o "_" \o
                CellOf(work, r, res.level_col) \o "_" \o
                CellOf(work, r, res.cell_col)

C1_Witness ==
    /\ pc = "loop"
    /\ fmt = "v2"
    /\ Truthy(res.bus_model_col)
    /\ \E r \in 1..Len(work.rows) : KeyOf(work, r) = "B2_S1_R_0_1_A_1"

-----------------------------------------------------------------------------
(* C2 *)

\* C2: every label shows the first row of one location-key group and, in the
\* multiple-parts format, the second row of the same group (the first row again
\* when the group has one row); the single-part format shows no second part;
\* no group has more than one label.
C2_FirstTwoRowsOfGroup ==
    pc = "loop" =>
        /\ \A p \in Of("part_table") :
              LET r1 == IndexPos(work, elements[p].row)
                  G == SameKey(r1)
                  first == MinOf(G)
              IN  /\ r1 = first
                  /\ elements[p].part_no = CellOf(work, r1, res.part_no_col)
                  /\ \A q \in Of("part_table") :
                        IndexPos(work, elements[q].row) \in G => q = p
                  /\ fmt = "v1" =>
                        /\ p + 2 \in Of("part_table2")
                        /\ IndexPos(work, elements[p + 2].row) =
                              IF Cardinality(G) = 1 THEN first ELSE MinOf(G \ {first})
        /\ \A p \in Of("part_table2") : fmt = "v1" /\ p - 2 \in Of("part_table")
        /\ Cardinality(Of("location_table")) = Cardinality(Of("part_table"))

C2_Witness ==
    /\ pc = "loop"
    /\ fmt = "v1"
    /\ \E p \in Of("part_table") :
          /\ Cardinality(SameKey(IndexPos(work, elements[p].row))) >= 3
          /\ elements[p + 2].row # elements[p].row

-----------------------------------------------------------------------------
(* C3 *)

\* The largest number of labels (location tables) found in `els` without a page
\* break in between, scanning from position k with `run` labels since the last
\* page break and `best` the largest run so far.
RECURSIVE MaxRun(_, _, _, _)
MaxRun(els, k, run, best) ==
    IF k > Len(els) THEN best
    ELSE IF els[k].type = "PageBreak" THEN MaxRun(els, k + 1, 0, best)
    ELSE IF els[k].type = "location_table"
         THEN MaxRun(els, k + 1, run + 1, IF run + 1 > best THEN run + 1 ELSE best)
         ELSE MaxRun(els, k + 1, run, best)

\* C3: at every point of the loop, in both formats and with failed locations,
\* no stretch of the element list free of page breaks holds more than
\* MAX_LABELS_PER_PAGE labels.
C3_AtMostFourPerPage == MaxRun(elements, 1, 0, 0) <= MAX_LABELS_PER_PAGE

C3_Witness ==
    /\ Cardinality(Of("PageBreak")) >= 2
    /\ shown # <<>>
    /\ \E p \in Of("PageBreak"), q \in Of("PageBreak") :
          /\ p < q
          /\ Cardinality({x \in Of("location_table") : p < x /\ x < q}) = MAX_LABELS_PER_PAGE

-----------------------------------------------------------------------------
(* C4 *)

\* No header of the table as read matches the part-number patterns.
NoPartNoColumn ==
    Len(df0.columns) > 0 /\ find_part_no_col(UpperAll(df0.columns)) = None

-----------------------------------------------------------------------------
(* C5 *)

\* C5: when a call has skipped at least one location, it still returns, and at
\* its end the caller holds a warning naming a skipped location.
C5_SkippedLocationLeavesWarning ==
    (pc = "idle" /\ shown # <<>>) =>
        /\ results[Len(results)].raised = "none"
        /\ \E k \in 1..Len(shown) : status_text = shown[k]

-----------------------------------------------------------------------------
(* C6 *)

\* C6: a second call with the same configuration on the same table object
\* returns what the first call returned.
C6_SecondRunSameOutput == Len(results) >= 2 => results[2] = results[1]

-----------------------------------------------------------------------------
(* C7 *)

\* The rows of a sequence of positions, as a set.
Members(group) == {group[k] : k \in 1..Len(group)}

-----------------------------------------------------------------------------
(* C8 *)

\* The records shown on a label of the running generator.
LocatedRows == {elements[p].row : p \in Of("part_table") \cup Of("part_table2")}

\* The records of the locations named by an error text shown during the call.
ReportedRows ==
    {work.index[r] : r \in {q \in 1..Len(work.rows) :
                               \E k \in 1..Len(shown) : shown[k].key = KeyOf(work, q)}}

\* C8: when the loop over the caller's table ends, every input record is either
\* located (shown on a label) or belongs to a location reported as skipped.
C8_Conservation ==
    (pc = "loop" /\ aliased /\ i > Len(keys)) =>
        Cardinality(LocatedRows) + Cardinality(ReportedRows) = Len(df0.rows)

-----------------------------------------------------------------------------
(* C9 *)

\* The rack number of a record: the rack-number column, or the two digit
\* columns when the table has those.
RackNumber(r) ==
    IF Truthy(res.rack_no_1st_col) \/ Truthy(res.rack_no_2nd_col)
    THEN CellOf(work, r, res.rack_no_1st_col) \o "|" \o CellOf(work, r, res.rack_no_2nd_col)
    ELSE CellOf(work, r, res.rack_no_col)

\* The two rack digits printed for a record.
DigitPair(r) ==
    LET v == extract_location_values(RowOf(work, r), res) IN <<v[4], v[5]>>

\* C9: two records have the same rack digits exactly when they have the same
\* rack number.
C9_DigitsUniquePerRack ==
    pc = "loop" =>
        \A r1, r2 \in 1..Len(work.rows) :
            (RackNumber(r1) = RackNumber(r2)) <=> (DigitPair(r1) = DigitPair(r2))

-----------------------------------------------------------------------------
(* C10 *)

\* C10: generating labels leaves the caller's table as it was read.
C10_TableUnchanged == df = df0

-----------------------------------------------------------------------------
(* C11 *)

\* The location roles whose resolution has a specific and a general pattern.
Roles == {"bus_model", "station", "rack_digit_1", "rack_digit_2"}

\* Whether the upper-cased header h matches the role's specific pattern.
MatchesSpecific(role, h) ==
    CASE role = "bus_model" -> Contains(h, "BUS") /\ Contains(h, "MODEL")
      [] role = "station" ->
            Contains(h, "STATION") /\ (Contains(h, "NO") \/ Contains(h, "NUM"))
      [] role = "rack_digit_1" ->
            Contains(h, "RACK") /\ Contains(h, "NO")
            /\ (Contains(h, "1ST") \/ (Contains(h, "1") /\ Contains(h, "DIGIT")))
      [] role = "rack_digit_2" ->
            Contains(h, "RACK") /\ Contains(h, "NO")
            /\ (Contains(h, "2ND") \/ (Contains(h, "2") /\ Contains(h, "DIGIT")))

\* Whether the upper-cased header h matches the role's general (fallback) pattern.
MatchesGeneral(role, h) ==
    CASE role = "bus_model" -> Contains(h, "BUS")
      [] role = "station" -> Contains(h, "STATION")
      [] role \in {"rack_digit_1", "rack_digit_2"} ->
            Contains(h, "RACK") /\ (Contains(h, "NO") \/ Contains(h, "NUM"))
            /\ ~Contains(h, "1ST") /\ ~Contains(h, "2ND")
            /\ ~Contains(h, "1") /\ ~Contains(h, "2")

\* The header the claim's precedence gives a role among the headers `cols`.
Expected(role, cols) ==
    LET specific == {k \in 1..Len(cols) : MatchesSpecific(role, cols[k])}
        general == {k \in 1..Len(cols) : MatchesGeneral(role, cols[k])}
    IN  IF specific # {} THEN cols[MinOf(specific)]
        ELSE IF general # {} THEN cols[MinOf(general)]
        ELSE None

\* The header the running generator reads a role's value from.
ResolvedFor(role) ==
    CASE role = "bus_model" -> res.bus_model_col
      [] role = "station" -> res.station_no_col
      [] role = "rack_digit_1" ->
            IF Truthy(res.rack_no_1st_col) THEN res.rack_no_1st_col ELSE res.rack_no_col
      [] role = "rack_digit_2" ->
            IF Truthy(res.rack_no_2nd_col) THEN res.rack_no_2nd_col ELSE res.rack_no_col

\* The text a role prints for row r when read from the header `col`.
RoleText(role, r, col) ==
    LET cell == CellOf(work, r, col)
        whole == \E k \in 1..Len(work.columns) :
                    work.columns[k] = col /\ ~MatchesSpecific(role, col)
    IN  CASE role \in {"bus_model", "station"} -> cell
          [] role = "rack_digit_1" ->
                IF whole THEN (IF Len(cell) >= 1 THEN Char(cell, 1) ELSE "") ELSE cell
          [] role = "rack_digit_2" ->
                IF whole THEN (IF Len(cell) >= 2 THEN Char(cell, 2) ELSE "") ELSE cell

\* The row of the working table the location table at position p was read from:
\* the row of the label's first part table.
LabelRow(p) == IndexPos(work, elements[IF fmt = "v1" THEN p - 3 ELSE p - 2].row)

RoleSlot(role) ==
    CASE role = "bus_model" -> 1 [] role = "station" -> 2
      [] role = "rack_digit_1" -> 4 [] role = "rack_digit_2" -> 5

-----------------------------------------------------------------------------
(* C12 *)

\* The label type determine_label_type gives row r of a table.
LabelType(t, r) ==
    determine_label_type(RowOf(UpperColumns(t), r), find_packaging_factor_column(t.columns))

\* The format a generator applies: v2 is the single-part format, v1 the
\* multiple-parts format.
FormatOf(f) == IF f = "v2" THEN "single" ELSE "multiple"

\* C12: whenever generate_labels_automatically runs a generator, in mixed mode
\* or not, the rows handed to it are exactly the rows of the input table whose
\* determine_label_type is the generator's format: rows with a missing, invalid
\* or other factor are in the single-part set, and no row is left out of both.
C12_RowFormatIsLabelType ==
    (pc = "loop" /\ entry = "auto") =>
        /\ \A r \in 1..Len(work.rows) : LabelType(work, r) = FormatOf(fmt)
        /\ \A r \in 1..Len(df0.rows) :
              LabelType(df0, r) = FormatOf(fmt) => \E q \in 1..Len(work.rows) : work.index[q] = df0.index[r]

-----------------------------------------------------------------------------
(* C13 *)

\* The packaging-factor texts of the table as read (none without the column).
FactorValues ==
    LET col == find_packaging_factor_column(df0.columns)
    IN  IF Truthy(col)
        THEN {StrGet(RowOf(UpperColumns(df0), r), col) : r \in 1..Len(df0.rows)}
        ELSE {}

IncludesOne == \E v \in FactorValues : FloatParses(v) /\ IsOne(v)
IncludesHalf == \E v \in FactorValues : FloatParses(v) /\ IsHalf(v)

\* The type the factor values call for.
TypeCalledFor ==
    IF IncludesOne /\ IncludesHalf THEN "mixed"
    ELSE IF IncludesHalf THEN "multiple"
    ELSE "single"

\* C13: on a table with at least one column, every call of
\* generate_labels_automatically returns, with the type the packaging-factor
\* values call for ("mixed" with a pair for both 1.0 and 0.5, "multiple" for
\* 0.5 without 1.0, "single" otherwise), and runs the matching generator: the
\* one-part format for "single", the two-part format for "multiple".
C13_TypeFromFactorValues ==
    Len(df0.columns) > 0 =>
        /\ \A k \in 1..Len(results) :
              results[k].entry = "auto" =>
                  /\ results[k].raised = "none"
                  /\ results[k].type = TypeCalledFor
                  /\ Len(results[k].pdfs) = IF TypeCalledFor = "mixed" THEN 2 ELSE 1
        /\ (pc = "loop" /\ entry = "auto") =>
              /\ auto.type = TypeCalledFor
              /\ auto.type = "single" => fmt = "v2"
              /\ auto.type = "multiple" => fmt = "v1"

-----------------------------------------------------------------------------
(* C14 *)

\* The labels between the page break at position p and the page break before
\* it (or the start of the document).
LabelsBefore(p) ==
    LET earlier == {q \in Of("PageBreak") : q < p}
        from == IF earlier = {} THEN 0 ELSE CHOOSE q \in earlier : \A x \in earlier : x <= q
    IN  {x \in Of("location_table") : from < x /\ x < p}

\* What the document looks like when the failing locations are not in the
\* input: every page break closes a page of MAX_LABELS_PER_PAGE labels.
BreaksAsWithoutFailures ==
    \A p \in Of("PageBreak") : Cardinality(LabelsBefore(p)) = MAX_LABELS_PER_PAGE

\* C14: a location whose processing raises is skipped atomically: the step
\* that reports its error leaves the element list as it was (no partial label,
\* no page break), and the other locations are laid out as they would be
\* without it.
C14_SkippedAtomically ==
    /\ [][(pc = "loop" /\ pc' = "loop" /\ shown' # shown) => elements' = elements]_vars
    /\ [](pc = "loop" => BreaksAsWithoutFailures)

-----------------------------------------------------------------------------
(* C15 *)

\* The seven location components of row r of the working table.
Components(r) ==
    << CellOf(work, r, res.bus_model_col), CellOf(work, r, res.station_no_col),
       CellOf(work, r, res.rack_col), RackDigit(work, r, res, 1),
       RackDigit(work, r, res, 2), CellOf(work, r, res.level_col),
       CellOf(work, r, res.cell_col) >>

\* C15: two records have the same location key exactly when they have the same
\* seven location components, whatever the components hold (the separator "_"
\* and the empty text included); and the location values a label prints are
\* the components of every record of its group.
C15_KeyIdentifiesLocation ==
    pc = "loop" =>
        /\ \A r1, r2 \in 1..Len(work.rows) :
              (KeyOf(work, r1) = KeyOf(work, r2)) <=> (Components(r1) = Components(r2))
        /\ \A p \in Of("location_table") :
              \A r \in SameKey(LabelRow(p)) : elements[p].values = Components(r)

-----------------------------------------------------------------------------
(* C16 *)

\* The labels of a returned document.
LabelsIn(doc) == {p \in 1..Len(doc) : doc[p].type = "location_table"}

\* C16: a generator returns a document exactly when it emitted at least one
\* label: with no label rendered (every location failed, however many there
\* are) the result is None, and a returned document holds at least one label.
C16_DocumentIffLabel ==
    \A k \in 1..Len(results) :
        results[k].raised = "none" =>
            \A j \in 1..Len(results[k].pdfs) :
                results[k].pdfs[j].ok <=> LabelsIn(results[k].pdfs[j].doc) # {}

====
